---- MODULE Spec2Model ----
(***************************************************************************)
(* Model of package logging (src/logging/log.go): a dispatcher (Log) that  *)
(* holds a slice of sinks (Logger), built by SetupLoggers from a           *)
(* configuration, and thirteen emit methods that fan a message out to the  *)
(* sinks whose threshold admits its severity.                              *)
(*                                                                         *)
(* The file system and the standard output stream are part of the state:   *)
(* directories, names bound to inodes, inode contents, and one file offset *)
(* per open handle (os.Create opens without O_APPEND).  A log line is one  *)
(* record of a file: every line has the same length in the model, so a     *)
(* write at a record boundary replaces exactly one line.  The timestamp    *)
(* that log.Logger puts into each line is left out of the line.            *)
(***************************************************************************)
EXTENDS Integers, Sequences, FiniteSets, TLC

(* ------------------------------ bounds -------------------------------- *)

\* The dispatcher holds at most MaxSinks sinks (SetupLoggers is not given
\* a configuration with more entries than fit).
MaxSinks == 2

\* No emit is started once a target holds MaxLines records.
MaxLines == 2

\* The wall clock runs from second 0 to second MaxClock.
MaxClock == 1

\* The same two bounds where every method meets every threshold.
MaxTableSinks == 2

MaxTableLines == 1


(* ------------------------- program constants -------------------------- *)

Fatal == 10
Error == 20
Warning == 30
Information == 40
Debug == 50
Verbose == 60

File == 1
Screen == 2

\* The inode number the model gives the process's standard output stream.
Stdout == 0

Severities == {Fatal, Error, Warning, Information, Debug, Verbose}

logStrings ==
    <<"FATAL  ", "ERROR  ", "WARNING", "INFO   ", "DEBUG  ", "VERBOSE">>

\* Go indexes from 0, TLA+ from 1.
getLogTypeString(severity) == logStrings[(severity \div 10 - 1) + 1]

(* ----------------------------- strings -------------------------------- *)

\* A string that the code inspects is a sequence of one-character strings.
UpperCase ==
    <<"A","B","C","D","E","F","G","H","I","J","K","L","M",
      "N","O","P","Q","R","S","T","U","V","W","X","Y","Z">>

LowerCase ==
    <<"a","b","c","d","e","f","g","h","i","j","k","l","m",
      "n","o","p","q","r","s","t","u","v","w","x","y","z">>

LowerChar(c) ==
    IF \E k \in DOMAIN UpperCase : UpperCase[k] = c
    THEN LowerCase[CHOOSE k \in DOMAIN UpperCase : UpperCase[k] = c]
    ELSE c

\* strings.ToLower
ToLower(s) == [k \in DOMAIN s |-> LowerChar(s[k])]

\* fmt.Sprintf restricted to the verb %s: a format is a sequence of tokens,
\* each "%s" token takes the next argument (itself a sequence of tokens,
\* copied as it is, its own verbs not interpreted); a verb without an
\* argument is rendered as "%!s(MISSING)".
RECURSIVE Sprintf(_, _)
Sprintf(format, args) ==
    IF format = <<>> THEN <<>>
    ELSE IF Head(format) = "%s"
         THEN IF args = <<>>
              THEN <<"%!s(MISSING)">> \o Sprintf(Tail(format), args)
              ELSE Head(args) \o Sprintf(Tail(format), Tail(args))
         ELSE <<Head(format)>> \o Sprintf(Tail(format), args)

(* ------------------------------ errors -------------------------------- *)

\* An error value: its text and the value formatted into it.
Nil == [text |-> "nil", arg |-> <<>>]

\* fmt.Errorf
FmtErrorf(text, arg) == [text |-> text, arg |-> arg]

\* The error of a failed system call, by the call's name; no error.
SysErr(call) == <<call>>

NoErr == <<>>

(* ---------------------------- file system ----------------------------- *)

\* A path is the sequence of its components; path.Dir drops the last one
\* (the empty sequence is ".", the working directory).
Dir(p) == SubSeq(p, 1, Len(p) - 1)

\* A file name: a configured path, alone (ext = <<>>) or followed by "."
\* and a suffix.
Name(p, ext) == [path |-> p, ext |-> ext]

\* time.Now().Format("20060102150405"): fourteen digits, seconds precision.
\* The clock counts the seconds of one minute; the date, hour and minute
\* digits are those of the minute the model runs in.
Format(t) == <<2, 0, 2, 6, 1, 1, 0, 3, 0, 9, 3, 0>> \o <<t \div 10, t % 10>>

\* fmt.Sprintf("%s.%s", logFilePath, stamp)
BackupName(p, t) == Name(p, Format(t))

Put(f, k, v) == [x \in (DOMAIN f) \cup {k} |-> IF x = k THEN v ELSE f[x]]

Drop(f, k) == [x \in (DOMAIN f) \ {k} |-> f[x]]

\* A disk: the directories, the names with the inode each is bound to, and
\* the content of every inode.
Disk(d, f, c) == [dirs |-> d, fs |-> f, files |-> c]

\* The smallest inode number not in use.
FreeIno(files) ==
    CHOOSE k \in 1..(Cardinality(DOMAIN files) + 1) :
        /\ k \notin DOMAIN files
        /\ \A j \in 1..(k - 1) : j \in DOMAIN files

\* os.Stat(name) succeeds
Exists(disk, name) == name \in DOMAIN disk.fs

\* All directories MkdirAll makes for path d: d and its ancestors.
Ancestors(d) == {SubSeq(d, 1, k) : k \in 0..Len(d)}

\* The *os.File of a failed open (nil).
NoFile == -1

\* How a loop iteration of SetupLoggers can fail in the file system: the
\* system call that fails, if the iteration reaches it.
Faults == {"none", "statdir", "mkdir", "statfile", "rename", "create"}

\* os.MkdirAll(path, os.ModeDir|os.ModePerm)
MkdirAll(disk, path, fault) ==
    IF fault = "mkdir"
    THEN [disk |-> disk, err |-> SysErr("mkdir")]
    ELSE [disk |-> [disk EXCEPT !.dirs = @ \cup Ancestors(path)], err |-> NoErr]

\* os.Rename(old, new): new is replaced when it exists.
Rename(disk, old, new, fault) ==
    IF fault = "rename"
    THEN [disk |-> disk, err |-> SysErr("rename")]
    ELSE [disk |-> [disk EXCEPT !.fs = Put(Drop(@, old), new, disk.fs[old])],
          err |-> NoErr]

\* os.Create(name): O_RDWR|O_CREATE|O_TRUNC, the handle's offset is 0. It
\* fails when the directory of name is missing.
Create(disk, name, fault) ==
    IF fault = "create" \/ Dir(name.path) \notin disk.dirs
    THEN [disk |-> disk, f |-> NoFile, err |-> SysErr("open")]
    ELSE IF Exists(disk, name)
         THEN [disk |-> [disk EXCEPT !.files[disk.fs[name]] = <<>>],
               f |-> disk.fs[name], err |-> NoErr]
         ELSE LET ino == FreeIno(disk.files)
              IN  [disk |-> [disk EXCEPT !.fs = Put(@, name, ino),
                                         !.files = Put(@, ino, <<>>)],
                   f |-> ino, err |-> NoErr]

\* Log.createLogDir: a Stat error other than "not exist" is ignored.
createLogDir(disk, path, fault) ==
    IF fault = "statdir"
    THEN [disk |-> disk, err |-> NoErr]
    ELSE IF path \notin disk.dirs
         THEN MkdirAll(disk, path, fault)
         ELSE [disk |-> disk, err |-> NoErr]

\* A createLogFile that never rotates, and one that always does.
createLogFileNoRotate(disk, logFilePath, rotate, fault, t) ==
    LET name == Name(logFilePath, <<>>)
    IN  IF fault = "statfile"
        THEN [disk |-> disk, f |-> NoFile, err |-> SysErr("stat")]
        ELSE Create(disk, name, fault)

createLogFileAlwaysRotate(disk, logFilePath, rotate, fault, t) ==
    LET name == Name(logFilePath, <<>>)
    IN  IF fault = "statfile"
        THEN [disk |-> disk, f |-> NoFile, err |-> SysErr("stat")]
        ELSE IF ~Exists(disk, name)
             THEN Create(disk, name, fault)
             ELSE LET r == Rename(disk, name, BackupName(logFilePath, t), fault)
                  IN  IF r.err # NoErr
                      THEN [disk |-> disk, f |-> NoFile, err |-> r.err]
                      ELSE Create(r.disk, name, fault)

\* Log.createLogFile
createLogFile(disk, logFilePath, rotate, fault, t) ==
    LET name == Name(logFilePath, <<>>)
    IN  IF fault = "statfile"
        THEN [disk |-> disk, f |-> NoFile, err |-> SysErr("stat")]
        ELSE IF ~Exists(disk, name)
             THEN Create(disk, name, fault)
             ELSE IF rotate
                  THEN LET r == Rename(disk, name, BackupName(logFilePath, t), fault)
                       IN  IF r.err # NoErr
                           THEN [disk |-> disk, f |-> NoFile, err |-> r.err]
                           ELSE Create(r.disk, name, fault)
                  ELSE Create(disk, name, fault)

(* ------------------------------ sinks --------------------------------- *)

\* log.New(out, prefix, logFlags)
NewRawLogger(out, prefix) == [out |-> out, prefix |-> prefix]

\* A Logger; its prefix field is never assigned (the prefix is the raw
\* logger's).
NewLogger(rawLogger, severity, logType) ==
    [rawLogger |-> rawLogger, severity |-> severity, logType |-> logType,
     prefix |-> ""]

\* A configuration entry.
Entry(logType, severity, rotate, path, prefix) ==
    [logType |-> logType, severity |-> severity, rotate |-> rotate,
     path |-> path, prefix |-> prefix]

\* A switch whose default case falls back to the screen.
ResolveLogTypeLenient(logType) ==
    IF ToLower(logType) = <<"f","i","l","e">> THEN File ELSE Screen

\* The first switch of the loop of SetupLoggers: the kind of the entry, 0
\* when the lowercased string is neither "file" nor "screen".
ResolveLogType(logType) ==
    IF ToLower(logType) = <<"f","i","l","e">> THEN File
    ELSE IF ToLower(logType) = <<"s","c","r","e","e","n">> THEN Screen
    ELSE 0

\* A guard that only looks for a nil list.
NoLoggersNilOnly(isNil, n) == isNil

\* The guard of SetupLoggers: no loggers configured.
NoLoggers(isNil, n) == isNil \/ n = 0

\* l.loggers = append(l.loggers, lg), and a dispatcher that keeps only the
\* latest sink.
replaceLogger(ls, lg) == <<lg>>

appendLogger(ls, lg) == Append(ls, lg)

\* One iteration of the loop of SetupLoggers on entry it, on disk `disk` at
\* second t: the error it returns (Nil to go on), the disk it leaves, and
\* the sink it appends.
LoopBody(disk, it, fault, t) ==
    LET logType == ResolveLogType(it.logType)
        none    == NewLogger(NewRawLogger(NoFile, ""), 0, 0)
    IN  IF logType = 0
        THEN [err |-> FmtErrorf("%s is invalid log type", it.logType),
              disk |-> disk, lg |-> none]
        ELSE IF logType = Screen
        THEN [err |-> Nil, disk |-> disk,
              lg |-> NewLogger(NewRawLogger(Stdout, it.prefix), it.severity, Screen)]
        ELSE LET d == createLogDir(disk, Dir(it.path), fault)
             IN  IF d.err # NoErr
                 THEN [err |-> FmtErrorf("failed to create logging directory: %s", d.err),
                       disk |-> d.disk, lg |-> none]
                 ELSE LET c == createLogFile(d.disk, it.path, it.rotate, fault, t)
                      IN  IF c.err # NoErr
                          THEN [err |-> FmtErrorf("failed to create log file: %s", c.err),
                                disk |-> c.disk, lg |-> none]
                          ELSE [err |-> Nil, disk |-> c.disk,
                                lg |-> NewLogger(NewRawLogger(c.f, it.prefix),
                                                 it.severity, File)]

\* The inodes that are in use: bound to a name or open in a sink, and the
\* standard output. The others are freed.
Live(f, sinks) ==
    {Stdout} \cup {f[x] : x \in DOMAIN f}
             \cup {sinks[k].rawLogger.out : k \in DOMAIN sinks}

Collect(c, f, sinks) == [k \in (DOMAIN c) \cap Live(f, sinks) |-> c[k]]

(* ------------------------------ emits --------------------------------- *)

\* The thirteen emit methods of Log.
Methods ==
    {"Fatal", "Fatalf", "Error", "Errorf", "Errore", "Warning", "Warningf",
     "Info", "Infof", "Debug", "Debugf", "Verbose", "Verbosef"}

\* The severity each method passes to writeMessage / writeMessagef.
MethodSeverity(m) ==
    CASE m \in {"Fatal", "Fatalf"}            -> Fatal
      [] m \in {"Error", "Errorf", "Errore"}  -> Error
      [] m \in {"Warning", "Warningf"}        -> Warning
      [] m \in {"Info", "Infof"}              -> Information
      [] m \in {"Debug", "Debugf"}            -> Debug
      [] m \in {"Verbose", "Verbosef"}        -> Verbose

\* The methods that go through writeMessagef.
Formatted(m) ==
    m \in {"Fatalf", "Errorf", "Warningf", "Infof", "Debugf", "Verbosef"}

\* A filter that leaves out the sink's own threshold.
AdmitsStrict(lg, severity) == lg.severity > severity

\* The filter of writeMessage and writeMessagef.
Admits(lg, severity) == lg.severity >= severity

\* The text writeMessage prints for msg, and the text writeMessagef prints
\* for the template msg with args.
MessageText(severity, msg) ==
    Sprintf(<<"%s", " ", "%s">>, <<(<<getLogTypeString(severity)>>), msg>>)

MessageTextf(severity, msg, args) ==
    Sprintf(Sprintf(<<"%s", " ", "%s">>, <<(<<getLogTypeString(severity)>>), msg>>),
            args)

\* The line caller p's call of method m makes a raw logger print. A caller
\* logs its own name: as the message, as the description of the error
\* given to Errore, or as the argument of the template "%s".
LineOf(rawLogger, m, p) ==
    [prefix |-> rawLogger.prefix,
     text   |-> IF Formatted(m)
                THEN MessageTextf(MethodSeverity(m), <<"%s">>, <<(<<p>>)>>)
                ELSE MessageText(MethodSeverity(m), <<p>>)]

\* A record of a file that was never written (a hole left by a write
\* beyond the end of the file).
Hole == [prefix |-> "", text |-> <<>>]

\* The content of a target after a handle at offset off writes line to it:
\* the standard output is a stream, a file is written at the offset.
WriteAt(content, out, off, line) ==
    IF out = Stdout
    THEN Append(content, line)
    ELSE [k \in 1..(IF off + 1 > Len(content) THEN off + 1 ELSE Len(content)) |->
            IF k = off + 1 THEN line
            ELSE IF k <= Len(content) THEN content[k] ELSE Hole]

(* ------------------------------ state --------------------------------- *)

VARIABLES
    loggers,    \* Log.loggers: the sinks
    offset,     \* the file offset of each sink's handle (0 for the screen)
    dirs,       \* the directories that exist
    fs,         \* the file names that exist, with the inode of each
    files,      \* the content of each inode: a sequence of lines
    now,        \* the wall clock, in seconds
    call,       \* the frame of the running SetupLoggers call, if any
    item,       \* the loop variable of SetupLoggers: the entry last read
    ret,        \* what the running SetupLoggers call returns
    em          \* per caller, the frame of its running emit, if any

vars == <<loggers, offset, dirs, fs, files, now, call, item, ret, em>>

\* The frame of a SetupLoggers call: where it is, whether cfg.Loggers is
\* nil, its length n, the number i of the entry being read; and, as the
\* call found them, the number of sinks and the file names.
Frame(pc, isNil, n, i, len0, names0) ==
    [pc |-> pc, isNil |-> isNil, n |-> n, i |-> i, len0 |-> len0, names0 |-> names0]

Idle == Frame("idle", FALSE, 0, 0, 0, {})

\* No SetupLoggers call has returned a value that is still held.
NotCalled == [text |-> "no call", arg |-> <<>>]

Running == [text |-> "running", arg |-> <<>>]

ZeroEntry == Entry(<<>>, 0, FALSE, <<>>, "")

NoEmit == [pc |-> "idle", m |-> "", i |-> 0, calls |-> <<>>]

\* No call of the dispatcher is running.
Quiet == call.pc = "idle" /\ \A p \in DOMAIN em : em[p].pc = "idle"

\* The disks a process can start on: an empty working directory, or one
\* that holds the log file an earlier run wrote.
EmptyDisk == Disk({<<>>}, <<>>, (Stdout :> <<>>))

OldLine == [prefix |-> "app:", text |-> <<"ERROR  ", " ", "old">>]

OldDisk(p) ==
    Disk(Ancestors(Dir(p)), (Name(p, <<>>) :> 1), (Stdout :> <<>>) @@ (1 :> <<OldLine>>))

\* After construction: an empty dispatcher, on one of the disks.
InitFor(callers, disks) ==
    /\ loggers = <<>>
    /\ offset = <<>>
    /\ \E d \in disks : dirs = d.dirs /\ fs = d.fs /\ files = d.files
    /\ now = 0
    /\ call = Idle
    /\ item = ZeroEntry
    /\ ret = NotCalled
    /\ em = [p \in callers |-> NoEmit]

(* ---------------------------- SetupLoggers ---------------------------- *)

\* SetupLoggers(cfg) is called with a configuration of n entries (nil or
\* not): it returns an error at once, or enters its loop. The entries are
\* drawn one by one as the loop reads them. (The dispatcher holds at most
\* maxSinks sinks: no configuration that could add more is given.)
SetupLoggers(isNil, n, maxSinks) ==
    /\ Quiet
    /\ isNil => n = 0
    /\ Len(loggers) + n <= maxSinks
    /\ IF NoLoggers(isNil, n)
       THEN /\ ret' = FmtErrorf("unable to setup loggers", <<>>)
            /\ call' = Frame("return", isNil, n, 0, Len(loggers), DOMAIN fs)
       ELSE /\ ret' = Running
            /\ call' = Frame("loop", isNil, n, 1, Len(loggers), DOMAIN fs)
    /\ UNCHANGED <<loggers, offset, dirs, fs, files, now, item, em>>

\* A loop that goes on to the next entry after an entry failed.
NextFrameContinue(c, err) ==
    IF c.i = c.n THEN [c EXCEPT !.pc = "return"] ELSE [c EXCEPT !.i = @ + 1]

\* Where the call is after the iteration on entry number c.i ended with
\* err: it returns err, or nil after the last entry, or reads the next.
NextFrame(c, err) ==
    IF err # Nil THEN [c EXCEPT !.pc = "return"]
    ELSE IF c.i = c.n THEN [c EXCEPT !.pc = "return"]
    ELSE [c EXCEPT !.i = @ + 1]

\* One iteration of the loop, on the entry it reads: it returns the error
\* of the entry, or appends the sink and goes on, returning nil after the
\* last entry.
Iterate(it, fault) ==
    /\ call.pc = "loop"
    /\ LET r == LoopBody(Disk(dirs, fs, files), it, fault, now)
           c == NextFrame(call, r.err)
       IN  /\ item' = it
           /\ dirs' = r.disk.dirs
           /\ fs' = r.disk.fs
           /\ call' = c
           /\ ret' = IF c.pc = "return" THEN r.err ELSE ret
           /\ IF r.err # Nil
              THEN /\ UNCHANGED <<loggers, offset>>
                   /\ files' = Collect(r.disk.files, r.disk.fs, loggers)
              ELSE /\ loggers' = appendLogger(loggers, r.lg)
                   /\ offset' = Append(offset, 0)
                   /\ files' = Collect(r.disk.files, r.disk.fs, loggers')
    /\ UNCHANGED <<now, em>>

\* The caller takes the value SetupLoggers returned; the call's frame (its
\* loop variable, its result) is gone.
SetupReturns ==
    /\ call.pc = "return"
    /\ call' = Idle
    /\ item' = ZeroEntry
    /\ ret' = NotCalled
    /\ UNCHANGED <<loggers, offset, dirs, fs, files, now, em>>

(* ------------------------------- emit --------------------------------- *)

\* Caller p calls emit method m: writeMessage or writeMessagef starts its
\* loop over the sinks, while other callers may be in theirs. (SetupLoggers
\* is not run while an emit is: it would race with the loop on l.loggers.)
Emit(p, m, maxLines) ==
    /\ call.pc = "idle"
    /\ em[p].pc = "idle"
    /\ \A k \in DOMAIN files : Len(files[k]) < maxLines
    /\ \A k \in DOMAIN offset : offset[k] < maxLines
    /\ em' = [em EXCEPT ![p] = [pc |-> "loop", m |-> m, i |-> 1, calls |-> <<>>]]
    /\ UNCHANGED <<loggers, offset, dirs, fs, files, now, call, item, ret>>

\* An emit that gives up at the first write that fails.
AfterPrintfAbort(e, ok) ==
    [e EXCEPT !.i = IF ok THEN @ + 1 ELSE Len(loggers) + 1,
              !.calls = Append(@, [sink |-> e.i, ok |-> ok])]

\* The frame of an emit after the Printf on sink number e.i: the outcome of
\* the write is not looked at, the loop goes on to the next sink. (calls
\* lists the Printf calls made so far.)
AfterPrintf(e, ok) ==
    [e EXCEPT !.i = @ + 1, !.calls = Append(@, [sink |-> e.i, ok |-> ok])]

\* One iteration of the loop of writeMessage / writeMessagef of caller p:
\* a sink that admits the severity prints the line, and the write succeeds
\* (ok) or fails; Printf returns nothing either way.
WriteMessage(p, ok) ==
    /\ em[p].pc = "loop"
    /\ em[p].i <= Len(loggers)
    /\ LET i  == em[p].i
           lg == loggers[i]
       IN  IF Admits(lg, MethodSeverity(em[p].m))
           THEN /\ em' = [em EXCEPT ![p] = AfterPrintf(@, ok)]
                /\ IF ok
                   THEN /\ files' = [files EXCEPT ![lg.rawLogger.out] =
                                        WriteAt(@, lg.rawLogger.out, offset[i],
                                                LineOf(lg.rawLogger, em[p].m, p))]
                        /\ offset' = [offset EXCEPT ![i] =
                                        IF lg.rawLogger.out = Stdout THEN @ ELSE @ + 1]
                   ELSE UNCHANGED <<files, offset>>
           ELSE /\ ok
                /\ em' = [em EXCEPT ![p].i = i + 1]
                /\ UNCHANGED <<files, offset>>
    /\ UNCHANGED <<loggers, dirs, fs, now, call, item, ret>>

\* The loop is over: the emit method returns.
Return(p) ==
    /\ em[p].pc = "loop"
    /\ em[p].i > Len(loggers)
    /\ em' = [em EXCEPT ![p] = NoEmit]
    /\ UNCHANGED <<loggers, offset, dirs, fs, files, now, call, item, ret>>

\* A second passes.
Tick ==
    /\ \A p \in DOMAIN em : em[p].pc = "idle"
    /\ now < MaxClock
    /\ now' = now + 1
    /\ UNCHANGED <<loggers, offset, dirs, fs, files, call, item, ret, em>>

(* ------------------------------ inputs -------------------------------- *)

Paths == {<<"log", "app.log">>}

FileKinds == {<<"F","i","l","e">>}

ScreenKinds == {<<"s","c","r","e","e","n">>}

OtherKinds == {<<"s","o","c","k","e","t">>}

Prefixes == {"app:"}

\* The entries of the kinds ks with thresholds ts: the fields an entry's
\* kind does not read have their zero values.
Entries(ks, ts) ==
    {Entry(k, t, r, p, x) : k \in ks \cap FileKinds, t \in ts, r \in BOOLEAN,
                            p \in Paths, x \in Prefixes}
    \cup {Entry(k, t, FALSE, <<>>, x) : k \in ks \cap ScreenKinds, t \in ts, x \in Prefixes}
    \cup {Entry(k, 0, FALSE, <<>>, "") : k \in ks \cap OtherKinds}

AllKinds == FileKinds \cup ScreenKinds \cup OtherKinds

\* The calls of the dispatcher: callers `callers` call SetupLoggers with
\* entries of `entries`, under file system faults `faults`, and the emit
\* methods `ms`, whose writes succeed or fail as in `oks`.
Calls(callers, entries, faults, ms, oks, maxSinks, maxLines) ==
    \/ \E isNil \in BOOLEAN, n \in 0..maxSinks : SetupLoggers(isNil, n, maxSinks)
    \/ \E it \in entries, fault \in faults : Iterate(it, fault)
    \/ SetupReturns
    \/ \E p \in callers, m \in ms : Emit(p, m, maxLines)
    \/ \E p \in callers, ok \in oks : WriteMessage(p, ok)
    \/ \E p \in callers : Return(p)

(* -------------------------- specifications ---------------------------- *)

\* One caller sets the dispatcher up, again and again as seconds pass, and
\* emits in between; every file system call of the setup can fail.
Callers == {"c1"}

Disks == {EmptyDisk} \cup {OldDisk(p) : p \in Paths}

Init == InitFor(Callers, Disks)

Next ==
    \/ Calls(Callers, Entries(AllKinds, {Error, Verbose}), Faults,
             {"Warningf"}, {TRUE}, MaxSinks, MaxLines)
    \/ Tick

Spec == Init /\ [][Next]_vars

\* Every method against every threshold, with writes that can fail, within
\* one second and without file system faults.
TableEntries ==
    Entries(ScreenKinds, Severities)
    \cup {Entry(<<"F","I","L","E">>, Warning, FALSE, p, x) : p \in Paths, x \in Prefixes}

InitTable == InitFor(Callers, {EmptyDisk})

NextTable ==
    Calls(Callers, TableEntries, {"none"}, Methods, BOOLEAN,
          MaxTableSinks, MaxTableLines)

SpecTable == InitTable /\ [][NextTable]_vars

\* Two callers that emit concurrently.
ConcurrentCallers == {"c1", "c2"}

InitConcurrent == InitFor(ConcurrentCallers, {EmptyDisk})

NextConcurrent ==
    Calls(ConcurrentCallers, Entries(AllKinds, {Error, Verbose}), {"none"},
          {"Error", "Warningf"}, BOOLEAN, MaxSinks, MaxLines)

SpecConcurrent == InitConcurrent /\ [][NextConcurrent]_vars

(* ------------------------------ claims -------------------------------- *)

\* The Printf calls caller p's running emit has made on sink number k.
CallsTo(p, k) == {j \in DOMAIN em[p].calls : em[p].calls[j].sink = k}

\* Caller p's running emit has been through all the sinks.
FannedOut(p) == em[p].pc = "loop" /\ em[p].i > Len(loggers)

Has(content, line) == \E j \in DOMAIN content : content[j] = line

\* The line caller p's running emit prints on sink number k.
LineOn(p, k) == LineOf(loggers[k].rawLogger, em[p].m, p)

\* C1: in a running emit of severity S, every sink the loop has been
\* through, of threshold T, was printed to exactly once if S <= T and not
\* at all if S > T (each sink by its own threshold alone), and the line of
\* the latest successful print is in that sink's target.
FilterBySeverity ==
    \A p \in DOMAIN em :
        em[p].pc = "loop" =>
            /\ \A k \in 1..(em[p].i - 1) :
                 LET S == MethodSeverity(em[p].m)
                     T == loggers[k].severity
                 IN  /\ S <= T => Cardinality(CallsTo(p, k)) = 1
                     /\ S > T => CallsTo(p, k) = {}
            /\ em[p].calls # <<>> =>
                 LET last == em[p].calls[Len(em[p].calls)]
                 IN  last.ok => Has(files[loggers[last.sink].rawLogger.out],
                                    LineOn(p, last.sink))

\* Sinks at thresholds Error and Verbose, one Warning emit: printed by the
\* second sink alone.
FilterBySeverityWitness ==
    \E p \in DOMAIN em :
        /\ FannedOut(p)
        /\ em[p].m = "Warning"
        /\ Len(loggers) = 2
        /\ loggers[1].severity = Error
        /\ loggers[2].severity = Verbose
        /\ em[p].calls = <<[sink |-> 2, ok |-> TRUE]>>
        /\ Has(files[loggers[2].rawLogger.out], LineOn(p, 2))

\* A step of the loop of caller p's emit.
EmitStep(p) == em[p].pc = "loop" /\ em[p].i <= Len(loggers) /\ em'[p] # em[p]

\* C7: every step of an emit's loop, whether its write fails or not, goes
\* on to the next sink with the sinks unchanged, after at most one Printf;
\* a failed write writes nothing, a successful one leaves its line in the
\* target; and once the loop is over every admitted sink was printed to
\* exactly once, in order, whatever failed.
FanOutSurvivesFailure ==
    [][\A p \in DOMAIN em :
         /\ EmitStep(p) =>
              /\ em'[p].pc = "loop"
              /\ em'[p].i = em[p].i + 1
              /\ loggers' = loggers
              /\ \/ /\ em'[p].calls = em[p].calls
                    /\ files' = files
                 \/ /\ Len(em'[p].calls) = Len(em[p].calls) + 1
                    /\ LET c == em'[p].calls[Len(em'[p].calls)]
                       IN  /\ c.sink = em[p].i
                           /\ ~c.ok => files' = files /\ offset' = offset
                           /\ c.ok => Has(files'[loggers[c.sink].rawLogger.out],
                                          LineOn(p, c.sink))
         /\ FannedOut(p)' =>
              LET admitted == {k \in DOMAIN loggers' :
                                 loggers'[k].severity >= MethodSeverity(em'[p].m)}
              IN  /\ Len(em'[p].calls) = Cardinality(admitted)
                  /\ \A k \in admitted : \E j \in DOMAIN em'[p].calls :
                         em'[p].calls[j].sink = k
      ]_vars

\* The write of the first sink failed, and the second sink has its line.
FanOutSurvivesFailureWitness ==
    \E p \in DOMAIN em :
        /\ FannedOut(p)
        /\ em[p].calls = <<[sink |-> 1, ok |-> FALSE], [sink |-> 2, ok |-> TRUE]>>
        /\ loggers[1].rawLogger.out # loggers[2].rawLogger.out
        /\ Has(files[loggers[2].rawLogger.out], LineOn(p, 2))
        /\ ~Has(files[loggers[1].rawLogger.out], LineOn(p, 1))

\* An iteration of the loop of SetupLoggers, one that appended a sink, one
\* that did not (its entry failed).
IterStep == call.pc = "loop" /\ call' # call

Appended == IterStep /\ Len(loggers') = Len(loggers) + 1

Refused == IterStep /\ loggers' = loggers

IsFileEntry(it) == ToLower(it.logType) = <<"f","i","l","e">>

IsScreenEntry(it) == ToLower(it.logType) = <<"s","c","r","e","e","n">>

LogName(it) == Name(it.path, <<>>)

SetupErrors ==
    {"%s is invalid log type", "failed to create logging directory: %s",
     "failed to create log file: %s"}

\* C2: a SetupLoggers call with a nil or empty list returns the error
\* "unable to setup loggers" without entering its loop, and from the call
\* to the caller taking the error no sink is appended and no directory or
\* file is created, renamed or truncated.
EmptyConfigFails ==
    [][/\ (call.pc = "idle" /\ call'.pc # "idle" /\ call'.n = 0) =>
             /\ call'.pc = "return"
             /\ ret' = FmtErrorf("unable to setup loggers", <<>>)
             /\ UNCHANGED <<loggers, offset, dirs, fs, files>>
       /\ (call.pc = "return" /\ call.n = 0) =>
             UNCHANGED <<loggers, offset, dirs, fs, files>>
      ]_vars

\* A nil list given to a dispatcher that has a sink on a file: the call
\* returns the error.
EmptyConfigFailsWitness ==
    /\ call.pc = "return"
    /\ call.isNil
    /\ ret.text = "unable to setup loggers"
    /\ Len(loggers) = 1
    /\ DOMAIN fs # {}

\* C3 as stated: a call that returns the invalid-kind error names the kind
\* and has created no file, wherever the entry is in the list.
InvalidKindCreatesNoFile ==
    (call.pc = "return" /\ ret.text = "%s is invalid log type") =>
        /\ ret.arg = item.logType
        /\ DOMAIN fs = call.names0

\* C3, amended: the iteration on an entry whose lowercased kind is neither
\* "file" nor "screen" returns the error that names the kind string as it
\* was given, and creates, renames and truncates nothing, nor does the call
\* after it; the file names the call found, and those the entries before
\* it made, stay.
InvalidKindFails ==
    [][/\ (IterStep /\ ~IsFileEntry(item') /\ ~IsScreenEntry(item')) =>
             /\ call'.pc = "return"
             /\ ret' = FmtErrorf("%s is invalid log type", item'.logType)
             /\ UNCHANGED <<loggers, offset, dirs, fs, files>>
             /\ call'.names0 \subseteq DOMAIN fs'
       /\ (call.pc = "return" /\ ret.text = "%s is invalid log type") =>
             UNCHANGED <<loggers, offset, dirs, fs, files>>
      ]_vars

\* The entry "socket" after a file entry that created the log file: the
\* call fails, the file is there.
InvalidKindFailsWitness ==
    /\ call.pc = "return"
    /\ ret = FmtErrorf("%s is invalid log type", <<"s","o","c","k","e","t">>)
    /\ call.i = 2
    /\ call.names0 = {}
    /\ DOMAIN fs # {}

\* C4: an iteration that goes through on a file entry with rotate=true
\* whose path exists leaves the previous file, content unchanged, under
\* <path>.<14 digits of the second>, a new empty file at the path, and
\* every other name as it was (one backup, no more).
RotateMakesOneBackup ==
    [][(Appended /\ IsFileEntry(item') /\ item'.rotate /\ LogName(item') \in DOMAIN fs) =>
          LET name == LogName(item')
              b    == Name(item'.path, Format(now))
          IN  /\ Len(b.ext) = 14
              /\ \A j \in 1..14 : b.ext[j] \in 0..9
              /\ DOMAIN fs' = DOMAIN fs \cup {b}
              /\ fs'[b] = fs[name]
              /\ files'[fs'[b]] = files[fs[name]]
              /\ fs'[name] \notin DOMAIN files
              /\ files'[fs'[name]] = <<>>
              /\ \A x \in DOMAIN fs \ {name, b} :
                     fs'[x] = fs[x] /\ files'[fs'[x]] = files[fs[x]]
              /\ loggers'[Len(loggers')].rawLogger.out = fs'[name]
              /\ offset'[Len(offset')] = 0
      ]_vars

\* A call rotated the log file it found: a backup that was not there holds
\* lines, the log file is empty.
RotateMakesOneBackupWitness ==
    /\ call.pc = "return"
    /\ ret = Nil
    /\ IsFileEntry(item)
    /\ item.rotate
    /\ LogName(item) \in call.names0
    /\ \E t \in 0..MaxClock :
          /\ BackupName(item.path, t) \in DOMAIN fs \ call.names0
          /\ files[fs[BackupName(item.path, t)]] # <<>>
    /\ files[fs[LogName(item)]] = <<>>

\* C5: an iteration that goes through on a file entry with rotate=false
\* whose path exists makes no backup (no name appears or moves) and empties
\* the file; on a file entry whose path does not exist, whatever rotate
\* is, it makes the one new name, bound to a new empty file; the sink
\* writes from offset 0.
TruncateOrCreate ==
    [][(Appended /\ IsFileEntry(item')) =>
          LET name == LogName(item')
          IN  /\ (name \in DOMAIN fs /\ ~item'.rotate) =>
                    /\ fs' = fs
                    /\ files'[fs[name]] = <<>>
                    /\ \A x \in DOMAIN fs \ {name} : files'[fs[x]] = files[fs[x]]
              /\ name \notin DOMAIN fs =>
                    /\ DOMAIN fs' = DOMAIN fs \cup {name}
                    /\ \A x \in DOMAIN fs :
                           fs'[x] = fs[x] /\ files'[fs[x]] = files[fs[x]]
                    /\ fs'[name] \notin DOMAIN files
                    /\ files'[fs'[name]] = <<>>
              /\ loggers'[Len(loggers')].rawLogger.out = fs'[name]
              /\ offset'[Len(offset')] = 0
      ]_vars

\* A call with one rotate=false entry on the log file it found: no new
\* name, the file is empty although a sink opened earlier wrote to it.
TruncateOrCreateWitness ==
    /\ call.pc = "return"
    /\ ret = Nil
    /\ call.n = 1
    /\ IsFileEntry(item)
    /\ ~item.rotate
    /\ LogName(item) \in call.names0
    /\ DOMAIN fs = call.names0
    /\ files[fs[LogName(item)]] = <<>>
    /\ offset = <<1, 0>>
    /\ loggers[1].rawLogger.out = loggers[2].rawLogger.out

\* C6: the entries are read one after the other; an iteration whose entry
\* fails returns that entry's error at once, takes no sink away, removes no
\* directory and no file (a file keeps its name, or is the log file this
\* very entry renamed to its backup name); and nothing is processed from
\* then on: until the caller has the error, sinks and disk stay as they
\* are.
StopsAtFirstFailure ==
    [][/\ IterStep =>
             \/ call'.pc = "loop" /\ call'.i = call.i + 1 /\ Appended
             \/ call'.pc = "return" /\ call'.i = call.i
       /\ Refused =>
             LET name == LogName(item')
                 b    == Name(item'.path, Format(now))
             IN  /\ call'.pc = "return"
                 /\ ret'.text \in SetupErrors
                 /\ offset' = offset
                 /\ dirs \subseteq dirs'
                 /\ \A x \in DOMAIN fs \ {name, b} :
                        x \in DOMAIN fs' /\ fs'[x] = fs[x] /\ files'[fs[x]] = files[fs[x]]
                 /\ b \in DOMAIN fs => b \in DOMAIN fs'
                 /\ name \in DOMAIN fs =>
                        \/ name \in DOMAIN fs' /\ fs'[name] = fs[name]
                                               /\ files'[fs[name]] = files[fs[name]]
                        \/ /\ IsFileEntry(item') /\ item'.rotate
                           /\ name \notin DOMAIN fs'
                           /\ fs'[b] = fs[name]
                           /\ files'[fs[name]] = files[fs[name]]
       /\ (call.pc = "return" /\ ret # Nil) =>
             UNCHANGED <<loggers, offset, dirs, fs, files>>
      ]_vars

\* The second of two entries failed to create its file: the sink, the
\* directory and the file of the first are there.
StopsAtFirstFailureWitness ==
    /\ call.pc = "return"
    /\ ret.text = "failed to create log file: %s"
    /\ call.n = 2
    /\ call.i = 2
    /\ call.len0 = 0
    /\ call.names0 = {}
    /\ Len(loggers) = 1
    /\ loggers[1].logType = File
    /\ <<"log">> \in dirs
    /\ \E x \in DOMAIN fs : fs[x] = loggers[1].rawLogger.out

\* C9 as stated: an iteration on a file entry with rotate=true overwrites
\* no backup that exists, and every file that had a name before it has one
\* after it.
RotationKeepsContent ==
    [][(IterStep /\ IsFileEntry(item') /\ item'.rotate) =>
          /\ \A x \in DOMAIN fs :
                 x.ext # <<>> => x \in DOMAIN fs' /\ fs'[x] = fs[x]
          /\ \A x \in DOMAIN fs : \E y \in DOMAIN fs' :
                 fs'[y] = fs[x] /\ files'[fs'[y]] = files[fs[x]]
      ]_vars

\* C10: the dispatcher starts with no sink; an iteration that goes through
\* appends one sink, with the threshold of its entry, and nothing else
\* changes the sinks; when SetupLoggers returns nil it has appended one
\* sink per entry, and when it returns the error of entry i, one per entry
\* before i; while there is no sink, an emit writes nothing.
AppendOnly ==
    /\ loggers = <<>>
    /\ [][/\ Appended =>
                /\ loggers' = Append(loggers, loggers'[Len(loggers')])
                /\ loggers'[Len(loggers')].severity = item'.severity
          /\ ~Appended => loggers' = loggers
          /\ call'.pc = "return" =>
                Len(loggers') = call'.len0 +
                    (IF ret' = Nil THEN call'.n
                     ELSE IF call'.i = 0 THEN 0 ELSE call'.i - 1)
          /\ \A k \in 1..call'.len0 : k \in DOMAIN loggers /\ loggers'[k] = loggers[k]
          /\ (loggers = <<>> /\ ~IterStep) => files' = files /\ offset' = offset
         ]_vars

\* A setup that failed at its second entry left the sink of the first.
AppendOnlyWitness ==
    /\ call.pc = "return"
    /\ ret.text \in SetupErrors
    /\ call.i = 2
    /\ call.len0 = 0
    /\ Len(loggers) = 1

\* The text of the line caller p's running emit prints.
TextOf(p) == LineOf(NewRawLogger(Stdout, ""), em[p].m, p).text

\* The records of target t that hold the line of caller p's running emit,
\* and the successful prints of that emit on sinks that write to t.
Landed(p, t) == {j \in DOMAIN files[t] : files[t][j].text = TextOf(p)}

PrintedTo(p, t) ==
    {j \in DOMAIN em[p].calls :
        /\ em[p].calls[j].ok
        /\ loggers[em[p].calls[j].sink].rawLogger.out = t}

\* C8 as stated: while callers emit concurrently no step of an emit changes
\* the sinks, and when an emit has been through the sinks every target
\* holds one whole line of it for each sink on that target that printed it
\* (none lost, none cut by another line).
EmitsLandWhole ==
    [][\A p \in DOMAIN em :
         /\ EmitStep(p) => loggers' = loggers
         /\ FannedOut(p)' =>
              \A t \in DOMAIN files' :
                  Cardinality(Landed(p, t)') >= Cardinality(PrintedTo(p, t)')
      ]_vars

====
